---- MODULE Spec2Model ----
(***************************************************************************)
(* Model of the actix-cors forwarding proxy (src/src/main.rs).             *)
(*                                                                         *)
(* Every inbound request is handled by the chain                           *)
(*     is_get_method . parse_uri . proxy_request                           *)
(* unless its path is exactly "/", which the root resource answers.  The   *)
(* model keeps one record per inbound request and lets the steps of        *)
(* different requests interleave freely.                                   *)
(*                                                                         *)
(* Text is modelled as sequences of tokens (a request target is            *)
(* << "/", "https", "://", "api.example.com", "/data", "?", "limit=10" >>) *)
(* so that slicing, parsing and rendering are real operations.             *)
(***************************************************************************)
EXTENDS Integers, Sequences, FiniteSets, TLC

\* Number of inbound requests handled concurrently.
NumReq == 2

\* Largest number of chunks in an upstream body.
MaxChunks == 2

Requests == 1..NumReq

USAGE == "Usage: GET /URL\n"

-----------------------------------------------------------------------------
(* Tokens and letter case *)

\* ASCII lower-casing, tabulated over the tokens the model uses.
LowerCase(t) ==
    CASE t = "HTTP" -> "http"
      [] t = "HTTPS" -> "https"
      [] t = "Connection" -> "connection"
      [] t = "Content-Length" -> "content-length"
      [] t = "CONTENT-LENGTH" -> "content-length"
      [] t = "Content-Type" -> "content-type"
      [] t = "Content-Encoding" -> "content-encoding"
      [] t = "X-Served-By" -> "x-served-by"
      [] t = "Access-Control-Allow-Origin" -> "access-control-allow-origin"
      [] t = "ACCESS-CONTROL-ALLOW-ORIGIN" -> "access-control-allow-origin"
      [] OTHER -> t

SchemeTokens == {"http", "https", "HTTP", "ftp"}
PathTokens == {"/", "/data", "/foo", "/path"}

-----------------------------------------------------------------------------
(* Inbound requests *)

\* Request targets of the request under study (request 1).
AllTargets ==
    { <<>>,
      <<"/">>,
      <<"/", "?", "x=1">>,
      <<"/", "https", "://", "api.example.com", "/data", "?", "limit=10">>,
      <<"/", "https", "://", "api.example.com", "/data">>,
      <<"/", "http", "://", "example.com">>,
      <<"/", "HTTP", "://", "example.com">>,
      <<"/", "ftp", "://", "example.com">>,
      <<"/", "example.com">>,
      <<"/", "/foo">>,
      <<"/", "http", "://", "/path">>,
      <<"/", "http", "://">> }

\* Request targets of the requests running beside it.
ConcurrentTargets ==
    { <<"/", "https", "://", "api.example.com", "/data">>,
      <<"/", "http", "://", "example.com">> }

Targets(r) == IF r = 1 THEN AllTargets ELSE ConcurrentTargets

Methods(r) == IF r = 1 THEN {"GET", "POST"} ELSE {"GET"}

\* Position of the first "?" of a target, or Len + 1.
RECURSIVE QueryStart(_, _)
QueryStart(t, i) ==
    IF i > Len(t) THEN i
    ELSE IF t[i] = "?" THEN i
    ELSE QueryStart(t, i + 1)

\* HttpRequest::path(): the path component of the target, query excluded.
ReqPath(t) == SubSeq(t, 1, QueryStart(t, 1) - 1)

NoRequest == [method |-> "", target |-> <<>>]

-----------------------------------------------------------------------------
(* Uri *)

NoUri == [scheme |-> "", host |-> "", path |-> <<>>, query |-> <<>>]

\* Uri::scheme_str(): "http" and "https" are recognised in any letter case
\* and reported in lower case; any other scheme is reported as written.
SchemeStr(t) ==
    IF LowerCase(t) \in {"http", "https"} THEN LowerCase(t) ELSE t

\* str::parse::<Uri>(): [ok, uri]; host and scheme are "" when absent.
UriParse(s) ==
    LET q == QueryStart(s, 1)
        p == SubSeq(s, 1, q - 1)
        query == SubSeq(s, q + 1, Len(s))
    IN  IF p = <<>> THEN [ok |-> FALSE, uri |-> NoUri]
        ELSE IF p[1] \in SchemeTokens /\ Len(p) >= 2 /\ p[2] = "://"
        THEN IF Len(p) < 3 \/ p[3] \in PathTokens
             THEN [ok |-> FALSE, uri |-> NoUri]
             ELSE [ok |-> TRUE,
                   uri |-> [scheme |-> SchemeStr(p[1]), host |-> p[3],
                            path |-> SubSeq(p, 4, Len(p)), query |-> query]]
        ELSE IF p[1] \in PathTokens
        THEN [ok |-> TRUE,
              uri |-> [scheme |-> "", host |-> "", path |-> p, query |-> query]]
        ELSE IF Len(p) = 1 /\ query = <<>>
        THEN [ok |-> TRUE,
              uri |-> [scheme |-> "", host |-> p[1], path |-> <<>>, query |-> <<>>]]
        ELSE [ok |-> FALSE, uri |-> NoUri]

\* The URL a Uri stands for, as tokens.
UriString(u) ==
    (IF u.scheme = "" THEN <<>> ELSE <<u.scheme, "://">>)
    \o (IF u.host = "" THEN <<>> ELSE <<u.host>>)
    \o u.path
    \o (IF u.query = <<>> THEN <<>> ELSE <<"?">> \o u.query)

-----------------------------------------------------------------------------
(* ProxyError *)

NoError == [kind |-> "None", reason |-> ""]
MethodNotSupported == [kind |-> "MethodNotSupported", reason |-> ""]
UnableToParseUri == [kind |-> "UnableToParseUri", reason |-> ""]
InternalServerError == [kind |-> "InternalServerError", reason |-> ""]
RequestError(reason) == [kind |-> "RequestError", reason |-> reason]

\* impl fmt::Display for ProxyError
fmt(e) ==
    CASE e.kind = "UnableToParseUri" -> "Unable to parse URL\n" \o USAGE
      [] e.kind = "RequestError" -> e.reason \o "\n" \o USAGE
      [] OTHER -> USAGE

\* impl ResponseError for ProxyError: the status of error_response()
error_response(e) ==
    CASE e.kind = "MethodNotSupported" -> 405
      [] e.kind = "UnableToParseUri" -> 400
      [] e.kind = "RequestError" -> 400
      [] e.kind = "InternalServerError" -> 500

NoResponse ==
    [status |-> 0, headers |-> <<>>, body |-> "", stream |-> <<>>,
     state |-> "none"]

\* What the framework sends for a failed handler future: the status of
\* error_response() with the Display text as a plain-text body.
RenderError(e) ==
    [status |-> error_response(e),
     headers |-> << <<"content-type", "text/plain">> >>,
     body |-> fmt(e), stream |-> <<>>, state |-> "complete"]

\* web::resource("/").to(|| USAGE)
UsageResponse ==
    [status |-> 200,
     headers |-> << <<"content-type", "text/plain; charset=utf-8">> >>,
     body |-> USAGE, stream |-> <<>>, state |-> "complete"]

-----------------------------------------------------------------------------
(* The stages of the chain, as functions *)

\* is_get_method: the request passes, or MethodNotSupported
is_get_method(request) ==
    IF request.method = "GET"
    THEN [ok |-> TRUE, err |-> NoError]
    ELSE [ok |-> FALSE, err |-> MethodNotSupported]

\* A scheme check that accepts whatever scheme is there.
is_valid_scheme_any(scheme) == scheme # ""

is_valid_scheme(scheme) ==
    IF scheme # "" THEN scheme = "https" \/ scheme = "http" ELSE FALSE

\* parse_uri: the Uri of the path without its first byte, or UnableToParseUri
parse_uri(request) ==
    LET path == ReqPath(request.target)
    IN  IF path = <<>>
        THEN [ok |-> FALSE, uri |-> NoUri, err |-> UnableToParseUri]
        ELSE LET parsed == UriParse(Tail(path))
             IN  IF parsed.ok /\ parsed.uri.host # ""
                    /\ is_valid_scheme(parsed.uri.scheme)
                 THEN [ok |-> TRUE, uri |-> parsed.uri, err |-> NoError]
                 ELSE [ok |-> FALSE, uri |-> NoUri, err |-> UnableToParseUri]

-----------------------------------------------------------------------------
(* The outbound client and the origins *)

\* Client::get(uri): a GET request; the client decompresses by default.
ClientGet(u) == [method |-> "GET", uri |-> u, decompress |-> TRUE]

\* A request left with the client's default, which decompresses.
no_decompress_noop(out) == out

\* ClientRequest::no_decompress()
no_decompress(out) == [out EXCEPT !.decompress = FALSE]

\* An origin's body: n chunks, compressed when the origin says so.
Body(host, n, coding) ==
    [i \in 1..n |-> [origin |-> host, seq |-> i, coding |-> coding]]

\* What each origin may answer, as sent on the wire.
OriginResponses(host) ==
    IF host = "api.example.com"
    THEN { [status |-> 200,
            headers |-> << <<"Content-Type", "application/json">>,
                           <<"Content-Encoding", "gzip">>,
                           <<"Content-Length", "2048">>,
                           <<"Connection", "keep-alive">>,
                           <<"Access-Control-Allow-Origin", "https://a.example">>,
                           <<"X-Served-By", "api">> >>,
            body |-> Body(host, n, "gzip")] : n \in 0..MaxChunks }
    ELSE { [status |-> 404,
            headers |-> << <<"x-served-by", "www-1">>,
                           <<"CONTENT-LENGTH", "9">>,
                           <<"x-served-by", "www-2">>,
                           <<"connection", "close">> >>,
            body |-> Body(host, 1, "identity")] }
         \cup
         { [status |-> 301,
            headers |-> << <<"ACCESS-CONTROL-ALLOW-ORIGIN", "null">>,
                           <<"location", "/moved">> >>,
            body |-> <<>>] }

NoUpstream == [status |-> 0, headers |-> <<>>, body |-> <<>>]

\* The decoder the client puts on a body it decompresses.
Decode(chunk) == [chunk EXCEPT !.coding = "identity"]

\* The ClientResponse send() resolves to: header names are stored in lower
\* case, and the payload is decoded only if the request asked for it.
ClientResponse(out, wire) ==
    [status |-> wire.status,
     headers |-> [i \in 1..Len(wire.headers) |->
                     <<LowerCase(wire.headers[i][1]), wire.headers[i][2]>>],
     body |-> IF out.decompress
              THEN [i \in 1..Len(wire.body) |-> Decode(wire.body[i])]
              ELSE wire.body]

\* The ways send() fails, with the text of the underlying cause.
SendRequestErrors ==
    { [class |-> "Url", cause |-> "Missing url host"],
      [class |-> "Connect", cause |-> "Failed resolving hostname"],
      [class |-> "Timeout", cause |-> "Timeout out while waiting for response"],
      [class |-> "Send", cause |-> "connection reset"] }

NoFailure == [class |-> "None", cause |-> ""]

\* A mapping that gives the cause only for Url failures.
map_err_url_only(f) ==
    CASE f.class = "Url" -> RequestError(f.cause)
      [] OTHER -> InternalServerError

\* The closure given to map_err
map_err(f) ==
    CASE f.class = "Url" -> RequestError(f.cause)
      [] f.class = "Connect" -> RequestError(f.cause)
      [] OTHER -> InternalServerError

\* A filter that lets content-length through.
IsFilteredNoLength(h) ==
    ~ ( LowerCase(h[1]) # "connection"
        /\ LowerCase(h[1]) # "access-control-allow-origin" )

\* A filter that lets the upstream access-control-allow-origin through.
IsFilteredNoCors(h) ==
    ~ ( LowerCase(h[1]) # "connection"
        /\ LowerCase(h[1]) # "content-length" )

\* The header filter: the names that are not copied.
IsFiltered(h) ==
    ~ ( LowerCase(h[1]) # "connection"
        /\ LowerCase(h[1]) # "access-control-allow-origin"
        /\ LowerCase(h[1]) # "content-length" )

\* The closure given to and_then: status and headers of the response built
\* from the upstream response; the body is attached as a stream.
Translate(response) ==
    [status |-> response.status,
     headers |-> SelectSeq(response.headers, LAMBDA h : ~IsFiltered(h))
                 \o << <<"access-control-allow-origin", "*">> >>,
     body |-> "", stream |-> <<>>, state |-> "open"]

-----------------------------------------------------------------------------
(* State *)

VARIABLES
    stage,      \* where each request is in the chain
    req,        \* the inbound request
    uri,        \* the Uri parse_uri produced
    err,        \* the ProxyError the chain failed with
    sent,       \* the outbound requests issued for it, in order
    failure,    \* the SendRequestError send() failed with
    wire,       \* the upstream response as the origin sent it
    pending,    \* the chunks of the upstream body not yet relayed
    resp,       \* the response to the caller
    trace       \* the stages the request has been through, in order

vars == <<stage, req, uri, err, sent, failure, wire, pending, resp, trace>>

Init ==
    /\ stage = [r \in Requests |-> "Idle"]
    /\ req = [r \in Requests |-> NoRequest]
    /\ uri = [r \in Requests |-> NoUri]
    /\ err = [r \in Requests |-> NoError]
    /\ sent = [r \in Requests |-> <<>>]
    /\ failure = [r \in Requests |-> NoFailure]
    /\ wire = [r \in Requests |-> NoUpstream]
    /\ pending = [r \in Requests |-> <<>>]
    /\ resp = [r \in Requests |-> NoResponse]
    /\ trace = [r \in Requests |-> <<>>]

\* The request moves to stage s.
Goto(r, s) ==
    /\ stage' = [stage EXCEPT ![r] = s]
    /\ trace' = [trace EXCEPT ![r] = Append(@, s)]

\* The chain fails with e, and the error is rendered as the response.
Fail(r, e) ==
    /\ Goto(r, "Error")
    /\ err' = [err EXCEPT ![r] = e]
    /\ resp' = [resp EXCEPT ![r] = RenderError(e)]

-----------------------------------------------------------------------------
(* Actions *)

\* Routing without the root resource: every request goes to proxy.
ReceiveAllToProxy(r) ==
    /\ stage[r] = "Idle"
    /\ \E m \in Methods(r), t \in Targets(r) :
          req' = [req EXCEPT ![r] = [method |-> m, target |-> t]]
    /\ Goto(r, "Received")
    /\ UNCHANGED <<uri, err, sent, failure, wire, pending, resp>>

\* A request arrives and is routed: the root resource answers a path of
\* exactly "/", the default service hands everything else to proxy.
Receive(r) ==
    /\ stage[r] = "Idle"
    /\ \E m \in Methods(r), t \in Targets(r) :
          /\ req' = [req EXCEPT ![r] = [method |-> m, target |-> t]]
          /\ IF ReqPath(t) = <<"/">>
             THEN /\ Goto(r, "Usage")
                  /\ resp' = [resp EXCEPT ![r] = UsageResponse]
             ELSE /\ Goto(r, "Received")
                  /\ UNCHANGED resp
    /\ UNCHANGED <<uri, err, sent, failure, wire, pending>>

\* proxy, first link: is_get_method(req)
MethodGate(r) ==
    /\ stage[r] = "Received"
    /\ LET checked == is_get_method(req[r])
       IN  IF checked.ok
           THEN Goto(r, "MethodChecked") /\ UNCHANGED <<err, resp>>
           ELSE Fail(r, checked.err)
    /\ UNCHANGED <<req, uri, sent, failure, wire, pending>>

\* proxy, second link: .and_then(parse_uri)
UrlExtractor(r) ==
    /\ stage[r] = "MethodChecked"
    /\ LET parsed == parse_uri(req[r])
       IN  IF parsed.ok
           THEN /\ Goto(r, "UriParsed")
                /\ uri' = [uri EXCEPT ![r] = parsed.uri]
                /\ UNCHANGED <<err, resp>>
           ELSE /\ Fail(r, parsed.err)
                /\ UNCHANGED uri
    /\ UNCHANGED <<req, sent, failure, wire, pending>>

\* A forwarder that may take the Uri another request has parsed.
ForwarderCrossed(r) ==
    /\ stage[r] = "UriParsed"
    /\ Goto(r, "Forwarded")
    /\ \E q \in Requests :
          /\ uri[q] # NoUri
          /\ sent' = [sent EXCEPT ![r] = Append(@, no_decompress(ClientGet(uri[q])))]
    /\ UNCHANGED <<req, uri, err, failure, wire, pending, resp>>

\* proxy_request: client.get(uri).no_decompress().send()
Forwarder(r) ==
    /\ stage[r] = "UriParsed"
    /\ Goto(r, "Forwarded")
    /\ sent' = [sent EXCEPT ![r] = Append(@, no_decompress(ClientGet(uri[r])))]
    /\ UNCHANGED <<req, uri, err, failure, wire, pending, resp>>

\* A failure handler that sends the request again.
SendFailsRetry(r) ==
    /\ stage[r] = "Forwarded"
    /\ Goto(r, "UriParsed")
    /\ UNCHANGED <<req, uri, err, sent, failure, wire, pending, resp>>

\* send() fails and map_err turns the failure into a ProxyError.
SendFails(r) ==
    /\ stage[r] = "Forwarded"
    /\ \E f \in SendRequestErrors :
          /\ failure' = [failure EXCEPT ![r] = f]
          /\ Fail(r, map_err(f))
    /\ UNCHANGED <<req, uri, sent, wire, pending>>

\* send() resolves: the origin of the outbound request answers, and the
\* response is built from it with the upstream body as its stream.
ResponseTranslator(r) ==
    /\ stage[r] = "Forwarded"
    /\ LET out == sent[r][Len(sent[r])]
       IN  \E w \in OriginResponses(out.uri.host) :
              LET response == ClientResponse(out, w)
              IN  /\ wire' = [wire EXCEPT ![r] = w]
                  /\ resp' = [resp EXCEPT ![r] = Translate(response)]
                  /\ pending' = [pending EXCEPT ![r] = response.body]
    /\ Goto(r, "Streaming")
    /\ UNCHANGED <<req, uri, err, sent, failure>>

\* The transport polls the stream and relays the next chunk.
StreamChunk(r) ==
    /\ stage[r] = "Streaming"
    /\ resp[r].state = "open"
    /\ pending[r] # <<>>
    /\ resp' = [resp EXCEPT ![r].stream = Append(@, Head(pending[r]))]
    /\ pending' = [pending EXCEPT ![r] = Tail(@)]
    /\ UNCHANGED <<stage, req, uri, err, sent, failure, wire, trace>>

\* The stream ends and the response is complete.
StreamEnd(r) ==
    /\ stage[r] = "Streaming"
    /\ resp[r].state = "open"
    /\ pending[r] = <<>>
    /\ resp' = [resp EXCEPT ![r].state = "complete"]
    /\ UNCHANGED <<stage, req, uri, err, sent, failure, wire, pending, trace>>

Next ==
    \E r \in Requests :
        \/ Receive(r)
        \/ MethodGate(r)
        \/ UrlExtractor(r)
        \/ Forwarder(r)
        \/ SendFails(r)
        \/ ResponseTranslator(r)
        \/ StreamChunk(r)
        \/ StreamEnd(r)

Spec == Init /\ [][Next]_vars

-----------------------------------------------------------------------------
(* Vocabulary of the properties *)

\* The request has been answered or has left the gate it is asked about.
Decided(r) == stage[r] \in {"Usage", "Error", "Streaming"}

\* The part of the request path after its first byte.
Remainder(t) == IF ReqPath(t) = <<>> THEN <<>> ELSE Tail(ReqPath(t))

\* The target as the caller wrote it after the first slash, query included.
Wanted(t) == IF t = <<>> THEN <<>> ELSE Tail(t)

\* The scheme as written in front of "://", or "".
WrittenScheme(s) == IF Len(s) >= 2 /\ s[2] = "://" THEN s[1] ELSE ""

\* s is written as an absolute http or https URL with a host.
IsAbsoluteHttpUrl(s) ==
    /\ Len(s) >= 3
    /\ s[1] \in {"http", "https"}
    /\ s[2] = "://"
    /\ s[3] \notin PathTokens \cup {"?"}

-----------------------------------------------------------------------------
(* Properties *)

\* C1: every inbound request whose method is not GET, whatever its path,
\* is answered with status 405 and a body that is exactly the usage string.
C1_NonGetIs405 ==
    \A r \in Requests :
        (Decided(r) /\ req[r].method # "GET")
        => /\ resp[r].status = 405
           /\ resp[r].body = USAGE
           /\ resp[r].stream = <<>>

\* C2: for every inbound GET request whose path after the first slash is
\* an absolute http or https URL with a host, an outbound GET is issued to
\* exactly that URL, the query string that follows it included.
C2_ForwardsExactUrl ==
    \A r \in Requests :
        (Decided(r) /\ req[r].method = "GET"
            /\ IsAbsoluteHttpUrl(Wanted(req[r].target)))
        => /\ Len(sent[r]) = 1
           /\ sent[r][1].method = "GET"
           /\ UriString(sent[r][1].uri) = Wanted(req[r].target)

\* The request went through the method gate into URL extraction.
Extracted(r) == stage[r] \in {"UriParsed", "Forwarded", "Streaming", "Error"}
                /\ req[r].method = "GET"

\* URL extraction failed: UnableToParseUri, status 400, no Uri.
Rejected(r) ==
    /\ stage[r] = "Error"
    /\ err[r] = UnableToParseUri
    /\ resp[r].status = 400
    /\ uri[r] = NoUri
    /\ sent[r] = <<>>

\* C3, as claimed: a GET request routed to the proxy whose remainder does
\* not parse, or parses without a host, or whose scheme is written as
\* anything but the lower-case literals http or https (HTTP included),
\* fails with UnableToParseUri and status 400, and no Uri is produced.
C3_RejectsAsWritten ==
    \A r \in Requests :
        LET s == Remainder(req[r].target)
        IN  (Extracted(r)
                /\ ( \/ ~UriParse(s).ok
                     \/ UriParse(s).uri.host = ""
                     \/ WrittenScheme(s) \notin {"http", "https"} ))
            => Rejected(r)

\* C3, amended: the same, with the scheme taken as the parser reports it,
\* so that a spelling of http or https in another letter case is not among
\* the rejected schemes.
C3_RejectsAsParsed ==
    \A r \in Requests :
        LET s == Remainder(req[r].target)
        IN  (Extracted(r)
                /\ ( \/ ~UriParse(s).ok
                     \/ UriParse(s).uri.host = ""
                     \/ LowerCase(WrittenScheme(s)) \notin {"http", "https"} ))
            => Rejected(r)

\* A GET request for an ftp URL has been rejected.
C3_Witness ==
    \E r \in Requests :
        /\ req[r].method = "GET"
        /\ WrittenScheme(Remainder(req[r].target)) = "ftp"
        /\ Rejected(r)

\* C4, as claimed: every inbound request whose path is empty or exactly
\* "/" is answered with status 400, UnableToParseUri.
C4_EmptyOrRootIs400 ==
    \A r \in Requests :
        (Decided(r) /\ ReqPath(req[r].target) \in {<<>>, <<"/">>})
        => /\ resp[r].status = 400
           /\ err[r] = UnableToParseUri

\* C4, amended: a GET request with an empty path is answered with status
\* 400, UnableToParseUri; a GET request whose path is exactly "/" is
\* answered by the root resource with status 200 and the usage string; in
\* both cases no Uri is produced and nothing is sent upstream.
C4_EmptyIs400RootIsUsage ==
    \A r \in Requests :
        (Decided(r) /\ req[r].method = "GET")
        => /\ ReqPath(req[r].target) = <<>> => Rejected(r)
           /\ ReqPath(req[r].target) = <<"/">>
              => /\ stage[r] = "Usage"
                 /\ resp[r].status = 200
                 /\ resp[r].body = USAGE
                 /\ uri[r] = NoUri
                 /\ sent[r] = <<>>

\* A GET request with an empty path has been rejected.
C4_Witness ==
    \E r \in Requests :
        /\ req[r].method = "GET"
        /\ ReqPath(req[r].target) = <<>>
        /\ Rejected(r)

\* How many headers of hs carry the name and value of h, names compared
\* as header names are: without regard to letter case.
Occurrences(hs, h) ==
    Cardinality({ i \in 1..Len(hs) :
                    /\ LowerCase(hs[i][1]) = LowerCase(h[1])
                    /\ hs[i][2] = h[2] })

HeaderNames(hs) == { LowerCase(hs[i][1]) : i \in 1..Len(hs) }

\* C5: on every successful upstream response the forwarded response has
\* the upstream status; it has no header named connection or
\* content-length, whatever the letter case upstream used; and every other
\* upstream header, access-control-allow-origin aside, is in it with its
\* name and value, as many times as upstream sent it.
C5_StatusAndHeadersCopied ==
    \A r \in Requests :
        stage[r] = "Streaming"
        => /\ resp[r].status = wire[r].status
           /\ HeaderNames(resp[r].headers)
                 \cap {"connection", "content-length"} = {}
           /\ \A i \in 1..Len(wire[r].headers) :
                 LET h == wire[r].headers[i]
                 IN  LowerCase(h[1]) \notin {"connection", "content-length",
                                            "access-control-allow-origin"}
                     => Occurrences(resp[r].headers, h)
                          = Occurrences(wire[r].headers, h)

\* A response is being forwarded whose upstream sent Content-Length and
\* Connection in mixed case beside headers that are copied.
C5_Witness ==
    \E r \in Requests :
        /\ stage[r] = "Streaming"
        /\ \E i \in 1..Len(wire[r].headers) : wire[r].headers[i][1] = "Content-Length"
        /\ \E i \in 1..Len(wire[r].headers) : wire[r].headers[i][1] = "Connection"
        /\ \E i \in 1..Len(resp[r].headers) : resp[r].headers[i][1] = "x-served-by"

\* C6: on every successful upstream response the forwarded response has
\* exactly one access-control-allow-origin header, its value is "*", and
\* it comes after every copied header, whether or not upstream sent one.
C6_CorsOverride ==
    \A r \in Requests :
        stage[r] = "Streaming"
        => LET hs == resp[r].headers
               cors == { i \in 1..Len(hs) :
                           LowerCase(hs[i][1]) = "access-control-allow-origin" }
           IN  /\ cors = {Len(hs)}
               /\ hs[Len(hs)][2] = "*"

\* A response is being forwarded whose upstream sent its own
\* access-control-allow-origin header, in upper case.
C6_Witness ==
    \E r \in Requests :
        /\ stage[r] = "Streaming"
        /\ \E i \in 1..Len(wire[r].headers) :
              /\ wire[r].headers[i][1] = "ACCESS-CONTROL-ALLOW-ORIGIN"
              /\ wire[r].headers[i][2] # "*"

\* C7: for every successful proxied request the chunks relayed so far,
\* followed by the chunks still to come, are the upstream body as the
\* origin sent it, chunk for chunk and still compressed; so the complete
\* response body is the upstream body.
C7_BodyRelayedVerbatim ==
    \A r \in Requests :
        stage[r] = "Streaming"
        => /\ resp[r].stream \o pending[r] = wire[r].body
           /\ resp[r].state = "complete" => resp[r].stream = wire[r].body
           /\ resp[r].body = ""

\* Part of a compressed upstream body has been relayed while the rest has
\* not yet been read.
C7_Witness ==
    \E r \in Requests :
        /\ stage[r] = "Streaming"
        /\ resp[r].stream # <<>>
        /\ pending[r] # <<>>
        /\ resp[r].stream[1].coding = "gzip"

\* The host the caller wrote in the request target.
TargetHost(t) == IF Len(t) >= 4 THEN t[4] ELSE ""

\* C8: under every interleaving of the requests, what a request has sent
\* went to its own target, and the status, headers and body chunks of its
\* response are those of an answer of its own target's origin, never of
\* the origin another request is talking to.
C8_NoInterference ==
    \A r \in Requests :
        /\ \A i \in 1..Len(sent[r]) :
              sent[r][i].uri.host = TargetHost(req[r].target)
        /\ stage[r] = "Streaming"
           => /\ wire[r] \in OriginResponses(TargetHost(req[r].target))
              /\ resp[r].status = wire[r].status
              /\ \A i \in 1..(Len(resp[r].headers) - 1) :
                    Occurrences(wire[r].headers, resp[r].headers[i]) > 0
              /\ \A i \in 1..Len(resp[r].stream) :
                    resp[r].stream[i].origin = TargetHost(req[r].target)
              /\ \A i \in 1..Len(pending[r]) :
                    pending[r][i].origin = TargetHost(req[r].target)

\* Two requests to different origins are being streamed at the same time,
\* each with part of its body relayed.
C8_Witness ==
    \E r, q \in Requests :
        /\ stage[r] = "Streaming" /\ stage[q] = "Streaming"
        /\ TargetHost(req[r].target) # TargetHost(req[q].target)
        /\ resp[r].stream # <<>> /\ resp[q].stream # <<>>
        /\ resp[r].state = "open" /\ resp[q].state = "open"

\* C9: when the outbound request fails, the failure class alone decides
\* the error: Url and Connect give RequestError, status 400 and a body of
\* the cause's text, a line break and the usage string; every other class
\* gives InternalServerError, status 500 and a body of the usage string.
C9_FailureMapping ==
    \A r \in Requests :
        failure[r] # NoFailure
        => /\ stage[r] = "Error"
           /\ IF failure[r].class \in {"Url", "Connect"}
              THEN /\ err[r] = [kind |-> "RequestError",
                                reason |-> failure[r].cause]
                   /\ resp[r].status = 400
                   /\ resp[r].body = failure[r].cause \o "\n" \o USAGE
              ELSE /\ err[r].kind = "InternalServerError"
                   /\ resp[r].status = 500
                   /\ resp[r].body = USAGE

\* One request failed to connect while another failed with a timeout.
C9_Witness ==
    \E r, q \in Requests :
        /\ failure[r].class = "Connect" /\ resp[r].status = 400
        /\ failure[q].class = "Timeout" /\ resp[q].status = 500

Chain == <<"Received", "MethodChecked", "UriParsed", "Forwarded", "Streaming">>

\* The error kinds a request can end in after k stages of the chain.
ErrorKindsAfter(k) ==
    CASE k = 1 -> {"MethodNotSupported"}
      [] k = 2 -> {"UnableToParseUri"}
      [] k = 4 -> {"RequestError", "InternalServerError"}
      [] OTHER -> {}

\* C10: a request routed to the proxy goes through Received,
\* MethodChecked, UriParsed, Forwarded, Streaming in that order, none
\* skipped or repeated, and ends in Streaming or in one Error; a request
\* that is not a GET ends in MethodNotSupported whatever its path; an
\* outbound request is issued only after both checks passed, and at most
\* one is issued per inbound request.
C10_LinearChain ==
    \A r \in Requests :
        (trace[r] # <<>> /\ trace[r][1] = "Received")
        => LET n == Len(trace[r])
               failed == trace[r][n] = "Error"
               k == IF failed THEN n - 1 ELSE n
           IN  /\ k \in 1..Len(Chain)
               /\ SubSeq(trace[r], 1, k) = SubSeq(Chain, 1, k)
               /\ stage[r] = trace[r][n]
               /\ failed <=> err[r] # NoError
               /\ failed => err[r].kind \in ErrorKindsAfter(k)
               /\ (failed /\ req[r].method # "GET")
                     => err[r] = MethodNotSupported
               /\ Len(sent[r]) = (IF k >= 4 THEN 1 ELSE 0)

\* A request that is not a GET and has a path that is no URL ended in
\* MethodNotSupported, while another request failed upstream after its
\* one outbound request.
C10_Witness ==
    \E r, q \in Requests :
        /\ req[r].method = "POST"
        /\ ~parse_uri(req[r]).ok
        /\ trace[r] = <<"Received", "Error">>
        /\ err[r] = MethodNotSupported
        /\ trace[q] = <<"Received", "MethodChecked", "UriParsed", "Forwarded", "Error">>
        /\ Len(sent[q]) = 1

====
